---- MODULE Spec2Model ----
(***************************************************************************)
(* Model of committrr_firebase_dashboard.py: the read operations over the  *)
(* `payments` and `USER_PROFILES` subtrees of a Firebase realtime database *)
(* (the fetch functions), the two pure helpers (format_timestamp,          *)
(* calculate_payment_stats) and the module-level bootstrap / render pass.  *)
(*                                                                         *)
(* Representation.  A Python dict is a TLA+ function from field names to   *)
(* values; `{"k": v, **d}` is `d @@ [k |-> v]` (the fields of d win).      *)
(* A JSON value read from the store is [tag |-> "none"] (None),            *)
(* [tag |-> "list"] (a truthy value that is not a dict: what the client    *)
(* returns for an array-shaped subtree) or [tag |-> "dict", items |-> s]   *)
(* with s the (key, value) pairs in iteration order.  A child value is     *)
(* [isdict |-> TRUE, d |-> fields] or [isdict |-> FALSE].                  *)
(* Times are counted in hours, so that the 24 hour window is 24 units.     *)
(***************************************************************************)
EXTENDS Integers, Sequences, FiniteSets, TLC

VARIABLES payments, profiles, call, ret, fmt, stats, pass, proc

vars == <<payments, profiles, call, ret, fmt, stats, pass, proc>>

\* What the read operations leave alone: the helpers' and the render pass's state.
others == <<fmt, stats, pass, proc>>

\* ------------------------------------------------------------------ bounds
NumPayments == 2
MaxLimit == 2

PaymentKeys == 1..NumPayments
\* Two users and two instants are what the comparisons of the code tell apart:
\* the same or another user, an earlier, an equal or a later time.
UserIds == {1, 2}
Times == {1, 2}
Limits == 1..MaxLimit

\* ------------------------------------------------------------ Python values
Get(d, k, default) == IF k \in DOMAIN d THEN d[k] ELSE default

\* {}
NoFields == [x \in {} |-> 0]

NoneVal == [tag |-> "none"]
ListVal == [tag |-> "list"]
DictVal(items) == [tag |-> "dict", items |-> items]

Truthy(x) == x.tag # "none"
IsDictVal(x) == x.tag = "dict"

Min(a, b) == IF a <= b THEN a ELSE b

TakeAll(s, n) == s

\* s[:n]
Take(s, n) == SubSeq(s, 1, Min(n, Len(s)))

\* sorted(..., key=lambda x: x.get(field, 0), reverse=True): stable, so records
\* with equal keys keep their relative order.
RECURSIVE InsertDesc(_, _, _)
InsertDesc(s, r, field) ==
  IF s = <<>> THEN <<r>>
  ELSE IF Get(Head(s), field, 0) >= Get(r, field, 0)
       THEN <<Head(s)>> \o InsertDesc(Tail(s), r, field)
       ELSE <<r>> \o s

RECURSIVE SortDesc(_, _)
SortDesc(s, field) ==
  IF s = <<>> THEN <<>>
  ELSE InsertDesc(SortDesc(SubSeq(s, 1, Len(s) - 1), field), s[Len(s)], field)

\* ------------------------------------------------------------------- store
\* The ascending enumeration of a finite set of integers.
RECURSIVE Ascending(_)
Ascending(S) ==
  IF S = {} THEN <<>>
  ELSE LET m == CHOOSE x \in S : \A y \in S : x <= y
       IN <<m>> \o Ascending(S \ {m})

Item(k, v) == [k |-> k, v |-> v]

\* The children of a mapping-shaped subtree in key order.
Children(tree) ==
  LET ks == Ascending(DOMAIN tree.m)
  IN [i \in 1..Len(ks) |-> Item(ks[i], tree.m[ks[i]])]

AsValue(tree, items) ==
  IF tree.tag = "list" THEN ListVal
  ELSE IF items = <<>> THEN NoneVal
  ELSE DictVal(items)

\* ref.get(): the whole subtree.
Scan(tree) == AsValue(tree, IF tree.tag = "dict" THEN Children(tree) ELSE <<>>)

\* The value order_by_child(field) sorts a child by: a child that is no dict or
\* lacks the field has a null value, which sorts before every number.
HasChild(it, field) == it.v.isdict /\ field \in DOMAIN it.v.d

Precedes(a, b, field) ==
  IF ~HasChild(a, field) THEN HasChild(b, field)
  ELSE HasChild(b, field) /\ a.v.d[field] < b.v.d[field]

RECURSIVE InsertAsc(_, _, _)
InsertAsc(s, it, field) ==
  IF s = <<>> THEN <<it>>
  ELSE IF Precedes(it, Head(s), field) THEN <<it>> \o s
       ELSE <<Head(s)>> \o InsertAsc(Tail(s), it, field)

\* Children ordered by the field's value, ties by key.
RECURSIVE OrderByChild(_, _)
OrderByChild(items, field) ==
  IF items = <<>> THEN <<>>
  ELSE InsertAsc(OrderByChild(SubSeq(items, 1, Len(items) - 1), field),
                 items[Len(items)], field)

LastN(s, n) == SubSeq(s, Len(s) - Min(n, Len(s)) + 1, Len(s))

Ordered(tree, field) ==
  IF tree.tag = "dict" THEN OrderByChild(Children(tree), field) ELSE <<>>

\* ref.order_by_child(field).limit_to_last(n).get()
OrderByChildLimitToLast(tree, field, n) ==
  AsValue(tree, LastN(Ordered(tree, field), n))

\* ref.order_by_child(field).start_at(v).get()
OrderByChildStartAt(tree, field, v) ==
  AsValue(tree, SelectSeq(Ordered(tree, field),
                          LAMBDA it : HasChild(it, field) /\ it.v.d[field] >= v))

\* ref.order_by_child(field).equal_to(v).limit_to_last(n).get()
OrderByChildEqualTo(tree, field, v, n) ==
  AsValue(tree, LastN(SelectSeq(Ordered(tree, field),
                                LAMBDA it : HasChild(it, field) /\ it.v.d[field] = v), n))

\* database.reference(path + "/" + key).get()
Child(tree, key) ==
  IF tree.tag = "dict" /\ key \in DOMAIN tree.m THEN tree.m[key] ELSE [isdict |-> FALSE]

HasChildKey(tree, key) == tree.tag = "dict" /\ key \in DOMAIN tree.m

\* ------------------------------------------------------- record conversion
\* {idfield: key, **data}: the stored fields are merged over the key.
MergeId(idfield, key, data) == data @@ (idfield :> key)

\* for key, data in items: if isinstance(data, dict): list.append({idfield: key, **data})
RECURSIVE ToRecords(_, _)
ToRecords(items, idfield) ==
  IF items = <<>> THEN <<>>
  ELSE IF Head(items).v.isdict
       THEN <<MergeId(idfield, Head(items).k, Head(items).v.d)>>
            \o ToRecords(Tail(items), idfield)
       ELSE ToRecords(Tail(items), idfield)

Uncaught(body, handler) == body

\* try: body / except Exception: handler
TryExcept(body, handler) == IF body.ok THEN body ELSE handler

Result(v, path) == [ok |-> TRUE, val |-> v, path |-> path]
Raised == [ok |-> FALSE, val |-> <<>>, path |-> "raised"]

\* ------------------------------------------------- fetch_recent_payments
RecentPaymentsPrimary(tree, limit, qfail) ==
  IF qfail THEN Raised
  ELSE LET payments_data == OrderByChildLimitToLast(tree, "createdAt", limit)
       IN IF ~Truthy(payments_data) \/ ~IsDictVal(payments_data)
          THEN Result(<<>>, "primary")
          ELSE Result(SortDesc(ToRecords(payments_data.items, "payment_id"), "createdAt"),
                      "primary")

RecentPaymentsFallback(tree, limit, sfail) ==
  IF sfail THEN Raised
  ELSE LET all_payments == Scan(tree)
       IN IF ~Truthy(all_payments) THEN Result(<<>>, "fallback")
          ELSE IF ~IsDictVal(all_payments) THEN Raised
          ELSE Result(Take(SortDesc(ToRecords(all_payments.items, "payment_id"),
                                    "createdAt"), limit), "fallback")

fetch_recent_payments(tree, limit, qfail, sfail) ==
  TryExcept(RecentPaymentsPrimary(tree, limit, qfail),
            TryExcept(RecentPaymentsFallback(tree, limit, sfail),
                      Result(<<>>, "failed")))

\* ---------------------------------------------- fetch_valid_payments_24h
Window == 24

\* int((now - timedelta(hours=24)).timestamp() * 1000)
Cutoff(now) == now - Window

DictItems(items) == SelectSeq(items, LAMBDA it : it.v.isdict)

ValidPaymentsPrimary(tree, now, qfail) ==
  IF qfail THEN Raised
  ELSE LET recent_payments == OrderByChildStartAt(tree, "createdAt", Cutoff(now))
       IN IF ~Truthy(recent_payments) THEN Result(<<>>, "primary")
          ELSE IF ~IsDictVal(recent_payments) THEN Raised
          ELSE Result(SortDesc(ToRecords(SelectSeq(DictItems(recent_payments.items),
                                   LAMBDA it : Get(it.v.d, "status", "") = "completed"),
                                   "payment_id"), "createdAt"), "primary")

IsValidAnyAge(d, cutoff) == Get(d, "status", "") = "completed"

\* payment_data.get("status") == "completed" and payment_data.get("createdAt", 0) >= cutoff
IsValid(d, cutoff) ==
  Get(d, "status", "") = "completed" /\ Get(d, "createdAt", 0) >= cutoff

ValidPaymentsFallback(tree, now, sfail) ==
  IF sfail THEN Raised
  ELSE LET all_payments == Scan(tree)
       IN IF ~Truthy(all_payments) THEN Result(<<>>, "fallback")
          ELSE IF ~IsDictVal(all_payments) THEN Raised
          ELSE Result(SortDesc(ToRecords(SelectSeq(DictItems(all_payments.items),
                                   LAMBDA it : IsValid(it.v.d, Cutoff(now))),
                                   "payment_id"), "createdAt"), "fallback")

\* now is the clock read by the primary path, later the one read by the fallback.
fetch_valid_payments_24h(tree, now, later, qfail, sfail) ==
  TryExcept(ValidPaymentsPrimary(tree, now, qfail),
            TryExcept(ValidPaymentsFallback(tree, later, sfail),
                      Result(<<>>, "failed")))

\* --------------------------------------------------- fetch_user_payments
UserPaymentsBody(tree, user_id, limit, qfail) ==
  IF qfail THEN Raised
  ELSE LET user_payments == OrderByChildEqualTo(tree, "userId", user_id, limit)
       IN IF ~Truthy(user_payments) THEN Result(<<>>, "primary")
          ELSE IF ~IsDictVal(user_payments) THEN Raised
          ELSE Result(SortDesc(ToRecords(user_payments.items, "payment_id"), "createdAt"),
                      "primary")

fetch_user_payments(tree, user_id, limit, qfail) ==
  TryExcept(UserPaymentsBody(tree, user_id, limit, qfail), Result(<<>>, "failed"))

\* ---------------------------------------------------- fetch_user_profile
NoProfile == [found |-> FALSE]

UserProfileAnyway(tree, user_id, qfail) == Result([found |-> TRUE, d |-> NoFields], "primary")

\* try body of fetch_user_profile: the profile when it is a non-empty dict.
UserProfileBody(tree, user_id, qfail) ==
  IF qfail THEN Raised
  ELSE LET user_data == Child(tree, user_id)
       IN IF user_data.isdict THEN Result([found |-> TRUE, d |-> user_data.d], "primary")
          ELSE Result(NoProfile, "primary")

fetch_user_profile(tree, user_id, qfail) ==
  TryExcept(UserProfileBody(tree, user_id, qfail), Result(NoProfile, "failed"))

\* ---------------------------------------------------- fetch_latest_users
LatestUsersPrimary(tree, limit, qfail) ==
  IF qfail THEN Raised
  ELSE LET users_data == OrderByChildLimitToLast(tree, "UserJoinDate", limit)
       IN IF ~Truthy(users_data) \/ ~IsDictVal(users_data)
          THEN Result(<<>>, "primary")
          ELSE Result(SortDesc(ToRecords(users_data.items, "user_id"), "UserJoinDate"),
                      "primary")

LatestUsersFallback(tree, limit, sfail) ==
  IF sfail THEN Raised
  ELSE LET all_users == Scan(tree)
       IN IF ~Truthy(all_users) THEN Result(<<>>, "fallback")
          ELSE IF ~IsDictVal(all_users) THEN Raised
          ELSE Result(Take(SortDesc(ToRecords(all_users.items, "user_id"),
                                    "UserJoinDate"), limit), "fallback")

fetch_latest_users(tree, limit, qfail, sfail) ==
  TryExcept(LatestUsersPrimary(tree, limit, qfail),
            TryExcept(LatestUsersFallback(tree, limit, sfail),
                      Result(<<>>, "failed")))

\* ----------------------------------------------- fetch_recent_challengers
ChallengerWindow == 100

\* The user_payment_map entry: the stored fields merged over the defaults.
PaymentEntry(payment_id, d) ==
  d @@ [payment_id |-> payment_id,
        createdAt |-> Get(d, "createdAt", 0),
        amount |-> Get(d, "amount", 0),
        currency |-> Get(d, "currency", "usd"),
        challengeId |-> Get(d, "challengeId", "")]

ReplacesOnTie(created_at, stored) == created_at >= stored

\* user_id not in user_payment_map or created_at > user_payment_map[user_id]["createdAt"]
Replaces(created_at, stored) == created_at > stored

IndexOf(map, uid) ==
  IF \E i \in 1..Len(map) : map[i].uid = uid
  THEN CHOOSE i \in 1..Len(map) : map[i].uid = uid
  ELSE 0

\* One iteration of the loop over payments_data.items(); the map keeps the
\* insertion order of its keys, as a Python dict does.
TrackPayment(map, it) ==
  IF it.v.isdict /\ Get(it.v.d, "status", "") = "completed" /\ "userId" \in DOMAIN it.v.d
  THEN LET uid == it.v.d["userId"]
           created_at == Get(it.v.d, "createdAt", 0)
           entry == [uid |-> uid, createdAt |-> PaymentEntry(it.k, it.v.d)["createdAt"],
                     rec |-> PaymentEntry(it.k, it.v.d)]
           i == IndexOf(map, uid)
       IN IF i = 0 THEN Append(map, entry)
          ELSE IF Replaces(created_at, map[i].rec["createdAt"])
               THEN [map EXCEPT ![i] = entry]
               ELSE map
  ELSE map

RECURSIVE UserPaymentMap(_)
UserPaymentMap(items) ==
  IF items = <<>> THEN <<>>
  ELSE TrackPayment(UserPaymentMap(SubSeq(items, 1, Len(items) - 1)), items[Len(items)])

AllUsers(items, limit) == SortDesc(UserPaymentMap(items), "createdAt")

\* sorted(user_payment_map.items(), key=createdAt, reverse=True)[:limit]
TopUsers(items, limit) == Take(SortDesc(UserPaymentMap(items), "createdAt"), limit)

ChallengerRecord(e, user_profile) ==
  user_profile @@ [user_id |-> e.uid,
                   payment_id |-> e.rec["payment_id"],
                   latest_payment_amount |-> e.rec["amount"],
                   latest_payment_date |-> e.rec["createdAt"],
                   latest_challenge_id |-> e.rec["challengeId"],
                   currency |-> e.rec["currency"]]

\* The loop over the top users; pfail is the set of users whose profile read raises.
RECURSIVE JoinProfiles(_, _, _)
JoinProfiles(top, ptree, pfail) ==
  IF top = <<>> THEN <<>>
  ELSE LET user_profile == fetch_user_profile(ptree, Head(top).uid, Head(top).uid \in pfail).val
       IN (IF user_profile.found
           THEN <<ChallengerRecord(Head(top), user_profile.d)>>
           ELSE <<>>) \o JoinProfiles(Tail(top), ptree, pfail)

RecentChallengersBody(tree, ptree, limit, qfail, pfail) ==
  IF qfail THEN Raised
  ELSE LET payments_data == OrderByChildLimitToLast(tree, "createdAt", ChallengerWindow)
       IN IF ~Truthy(payments_data) THEN Result(<<>>, "primary")
          ELSE IF ~IsDictVal(payments_data) THEN Raised
          ELSE Result(JoinProfiles(TopUsers(payments_data.items, limit), ptree, pfail),
                      "primary")

fetch_recent_challengers(tree, ptree, limit, qfail, pfail) ==
  TryExcept(RecentChallengersBody(tree, ptree, limit, qfail, pfail),
            Result(<<>>, "failed"))

\* ------------------------------------------------------ format_timestamp
(* A timestamp argument is None, NaN, a text, a number too large for the    *)
(* platform's time functions ("huge"), or a number of milliseconds given   *)
(* as h whole hours and ms further milliseconds (0 <= ms < 3600000).       *)
(* tz is the hours the local wall clock is ahead of UTC.                   *)
HourMs == 3600 * 1000

\* datetime.min and the first instant past datetime.max, in hours since the epoch.
MinHour == (0 - 719162) * 24
MaxHour == 2932897 * 24

\* timedelta(hours=5)
OffsetHours == 5

IsNumber(t) == t.kind = "num"

\* pd.notna(timestamp)
NotNa(t) == t.kind \notin {"none", "nan"}

IsZero(t) == IsNumber(t) /\ t.h = 0 /\ t.ms = 0

\* The civil date of a day number (days since 1970-01-01), as strftime prints it.
CivilFromDays(day) ==
  LET z == day + 719468
      era == z \div 146097
      doe == z - era * 146097
      yoe == (doe - doe \div 1460 + doe \div 36524 - doe \div 146096) \div 365
      doy == doe - (365 * yoe + yoe \div 4 - yoe \div 100)
      mp == (5 * doy + 2) \div 153
      d == doy - (153 * mp + 2) \div 5 + 1
      m == IF mp < 10 THEN mp + 3 ELSE mp - 9
      y == yoe + era * 400 + (IF m <= 2 THEN 1 ELSE 0)
  IN [Y |-> y, M |-> m, D |-> d]

\* dt.strftime('%H:%M:%S %Y-%m-%d') of the wall-clock hour lh and ms into it.
Strftime(lh, ms) ==
  [kind |-> "date",
   hh |-> lh % 24, mm |-> (ms \div 1000) \div 60, ss |-> (ms \div 1000) % 60,
   date |-> CivilFromDays(lh \div 24)]

NotAvailable == [kind |-> "text", s |-> "Not available"]
InvalidDate == [kind |-> "text", s |-> "Invalid date"]
Propagates(exc) == [kind |-> "raised", exc |-> exc]

\* except (ValueError, TypeError): return "Invalid date"
Caught(exc) ==
  IF exc \in {"ValueError", "TypeError"} THEN InvalidDate ELSE Propagates(exc)

format_timestamp(t, tz) ==
  IF NotNa(t) /\ ~IsZero(t)
  THEN IF t.kind = "text" THEN Caught("TypeError")            \* timestamp/1000
       ELSE IF t.kind = "huge" THEN Caught("OverflowError")    \* fromtimestamp
       ELSE IF t.h + tz < MinHour \/ t.h + tz >= MaxHour
            THEN Caught("ValueError")                          \* year out of range
       ELSE IF t.h + tz + OffsetHours >= MaxHour
            THEN Caught("OverflowError")                       \* dt + timedelta
       ELSE Strftime(t.h + tz + OffsetHours, t.ms)
  ELSE NotAvailable

\* ------------------------------------------------ calculate_payment_stats
\* df = pd.DataFrame(payments): one column per field some record has.
Columns(records) == UNION {DOMAIN records[i] : i \in 1..Len(records)}

Having(records, field) == SelectSeq(records, LAMBDA r : field \in DOMAIN r)

\* df[field].sum(): the cells of records lacking the field are NaN and skipped.
RECURSIVE ColumnSum(_, _)
ColumnSum(records, field) ==
  IF records = <<>> THEN 0
  ELSE Get(Head(records), field, 0) + ColumnSum(Tail(records), field)

\* df[field].mean(): the sum over the number of cells that are not NaN, kept
\* as the fraction num / den.
ColumnMean(records, field) ==
  [num |-> ColumnSum(records, field), den |-> Len(Having(records, field))]

\* df[field].value_counts().to_dict(): NaN cells are not counted.
ValueCounts(records, field) ==
  [v \in {r[field] : r \in {records[i] : i \in {j \in 1..Len(records) :
                                               field \in DOMAIN records[j]}}} |->
     Len(SelectSeq(records, LAMBDA r : field \in DOMAIN r /\ r[field] = v))]

\* if 'amount' in df.columns: total_amount, average_amount, count
AmountStats(records) ==
  IF "amount" \in Columns(records)
  THEN [total_amount |-> ColumnSum(records, "amount"),
        average_amount |-> ColumnMean(records, "amount"),
        count |-> Len(records)]
  ELSE NoFields

BreakdownStats(records, field, name) ==
  IF field \in Columns(records) THEN name :> ValueCounts(records, field) ELSE NoFields

calculate_payment_stats(records) ==
  IF records = <<>> THEN NoFields
  ELSE AmountStats(records)
         @@ BreakdownStats(records, "status", "status_breakdown")
         @@ BreakdownStats(records, "currency", "currency_breakdown")

\* ------------------------------------------------------ the store's contents
OptField(k, S) == {NoFields} \cup {k :> v : v \in S}

\* A stored payment: any of userId, createdAt and a field named payment_id may
\* be absent; the value 0 of a stored payment_id is no key of the subtree.
PaymentDicts ==
  {u @@ st @@ c @@ p : u \in OptField("userId", UserIds),
                        st \in {"status" :> x : x \in {"completed", "pending"}},
                        c \in OptField("createdAt", Times),
                        p \in OptField("payment_id", {0})}

ProfileDicts ==
  {n @@ j : n \in {"UserName" :> "name"}, j \in OptField("UserJoinDate", Times)}

NotADict == [isdict |-> FALSE]

Values(dicts) == {NotADict} \cup {[isdict |-> TRUE, d |-> d] : d \in dicts}

\* Each operation is applied to every content of the subtree it reads, with the
\* subtree it never looks at missing; an operation changes nothing, so a second
\* call would start from the same store.
\* A subtree: array-shaped, or a mapping over some of the keys (none: missing).
Trees(keys, values) ==
  {[tag |-> "list"]}
    \cup {[tag |-> "dict", m |-> f] : f \in UNION {[S -> values] : S \in SUBSET keys}}

PlainProfile == [isdict |-> TRUE, d |-> "UserName" :> "name"]

\* The subtrees in which every user present has a plain profile.
PlainTrees == {[tag |-> "dict", m |-> f] : f \in UNION {[S -> {PlainProfile}] : S \in SUBSET UserIds}}

NoTree == [tag |-> "dict", m |-> NoFields]

NoCall == [op |-> "none"]

NoResult == Result(<<>>, "none")

\* The helpers and the render pass at rest.
NoFmt == [arg |-> [kind |-> "none"], tz |-> 0, out |-> [kind |-> "pending"]]
NoStats == [arg |-> <<>>, done |-> FALSE, out |-> NoFields]
NoPass == [pc |-> "off"]
NoProc == [app |-> FALSE]

HelpersIdle == fmt = NoFmt /\ stats = NoStats

PassIdle == pass = NoPass /\ proc = NoProc

StoreIdle == payments = NoTree /\ profiles = NoTree /\ call = NoCall /\ ret = NoResult

Init ==
  /\ payments \in Trees(PaymentKeys, Values(PaymentDicts))
  /\ profiles \in Trees(UserIds, Values(ProfileDicts))
  /\ payments = NoTree \/ profiles \in PlainTrees
  /\ call = NoCall
  /\ ret = NoResult
  /\ HelpersIdle
  /\ PassIdle

Nows == {Window + t : t \in Times}

Idle == call = NoCall

\* The second strategy's outcomes are inputs only when the first one raised.
After(first) == IF first.ok THEN {FALSE} ELSE BOOLEAN

FetchRecentPayments ==
  /\ Idle /\ profiles = NoTree
  /\ \E limit \in Limits, qfail \in BOOLEAN :
    \E sfail \in After(RecentPaymentsPrimary(payments, limit, qfail)) :
      /\ call' = [op |-> "recentPayments", limit |-> limit, qfail |-> qfail,
                  sfail |-> sfail]
      /\ ret' = fetch_recent_payments(payments, limit, qfail, sfail)
      /\ UNCHANGED <<payments, profiles, others>>

FetchValidPayments24h ==
  /\ Idle /\ profiles = NoTree
  /\ \E now \in Nows, qfail \in BOOLEAN :
    \E sfail \in After(ValidPaymentsPrimary(payments, now, qfail)) :
      \E later \in IF ValidPaymentsPrimary(payments, now, qfail).ok
                   THEN {now} ELSE {t \in Nows : t >= now} :
        /\ call' = [op |-> "validPayments24h", now |-> now, later |-> later,
                    qfail |-> qfail, sfail |-> sfail]
        /\ ret' = fetch_valid_payments_24h(payments, now, later, qfail, sfail)
        /\ UNCHANGED <<payments, profiles, others>>

FetchUserPayments ==
  /\ Idle /\ profiles = NoTree
  /\ \E user_id \in UserIds, limit \in Limits, qfail \in BOOLEAN :
    /\ call' = [op |-> "userPayments", user_id |-> user_id, limit |-> limit,
                qfail |-> qfail]
    /\ ret' = fetch_user_payments(payments, user_id, limit, qfail)
    /\ UNCHANGED <<payments, profiles, others>>

FetchUserProfile ==
  /\ Idle /\ payments = NoTree
  /\ \E user_id \in UserIds, qfail \in BOOLEAN :
    /\ call' = [op |-> "userProfile", user_id |-> user_id, qfail |-> qfail]
    /\ ret' = fetch_user_profile(profiles, user_id, qfail)
    /\ UNCHANGED <<payments, profiles, others>>

FetchLatestUsers ==
  /\ Idle /\ payments = NoTree
  /\ \E limit \in Limits, qfail \in BOOLEAN :
    \E sfail \in After(LatestUsersPrimary(profiles, limit, qfail)) :
      /\ call' = [op |-> "latestUsers", limit |-> limit, qfail |-> qfail, sfail |-> sfail]
      /\ ret' = fetch_latest_users(profiles, limit, qfail, sfail)
      /\ UNCHANGED <<payments, profiles, others>>

\* The users whose profile the call reads.
LookedUp(tree, limit, qfail) ==
  LET payments_data == OrderByChildLimitToLast(tree, "createdAt", ChallengerWindow)
  IN IF qfail \/ ~IsDictVal(payments_data) THEN {}
     ELSE LET top == TopUsers(payments_data.items, limit)
          IN {top[i].uid : i \in 1..Len(top)}

FetchRecentChallengers ==
  /\ Idle
  /\ \E limit \in Limits, qfail \in BOOLEAN :
    \E pfail \in SUBSET LookedUp(payments, limit, qfail) :
      /\ call' = [op |-> "recentChallengers", limit |-> limit, qfail |-> qfail,
                  pfail |-> pfail]
      /\ ret' = fetch_recent_challengers(payments, profiles, limit, qfail, pfail)
      /\ UNCHANGED <<payments, profiles, others>>

Next ==
  \/ FetchRecentPayments
  \/ FetchValidPayments24h
  \/ FetchUserPayments
  \/ FetchUserProfile
  \/ FetchLatestUsers
  \/ FetchRecentChallengers

Spec == Init /\ [][Next]_vars

\* ------------------------------------------------- properties of the reads
PaymentDict(k) == HasChildKey(payments, k) /\ payments.m[k].isdict

ProfileDict(u) == HasChildKey(profiles, u) /\ profiles.m[u].isdict

CreatedAt(k) == Get(payments.m[k].d, "createdAt", 0)

SortedDesc(s, field) ==
  \A i \in 1..(Len(s) - 1) : Get(s[i], field, 0) >= Get(s[i + 1], field, 0)

\* The completed payments of user u.
CompletedBy(u) ==
  {k \in PaymentKeys : /\ PaymentDict(k)
                       /\ Get(payments.m[k].d, "status", "") = "completed"
                       /\ Get(payments.m[k].d, "userId", 0) = u}

Latest(S) == {k \in S : \A j \in S : CreatedAt(j) <= CreatedAt(k)}

Shadowed(k) == "payment_id" \in DOMAIN payments.m[k].d

\* C1: recentPayments returns at most `limit` records, ordered by createdAt
\* non-increasing (absent counted as 0), and the payment_id of every returned
\* record is the key of a document that exists under payments.
C1_RecentPayments ==
  call.op = "recentPayments" =>
    /\ Len(ret.val) <= call.limit
    /\ SortedDesc(ret.val, "createdAt")
    /\ \A i \in 1..Len(ret.val) : HasChildKey(payments, ret.val[i]["payment_id"])

\* C2: validPayments24h returns only records whose status is "completed" and
\* whose createdAt is present and at least now minus 24 hours, ordered by
\* createdAt non-increasing, on the primary and on the fallback path.
C2_ValidPayments24h ==
  call.op = "validPayments24h" =>
    /\ ret.ok
    /\ \A i \in 1..Len(ret.val) :
         /\ Get(ret.val[i], "status", "") = "completed"
         /\ "createdAt" \in DOMAIN ret.val[i]
         /\ ret.val[i]["createdAt"] >= call.now - Window
    /\ SortedDesc(ret.val, "createdAt")

\* The fallback path returned a record while the subtree also holds a completed
\* payment that is too old or undated, or a payment in the window that is not
\* completed.
C2_Witness ==
  /\ call.op = "validPayments24h"
  /\ ret.path = "fallback"
  /\ Len(ret.val) = 1
  /\ \E k \in PaymentKeys :
       /\ PaymentDict(k)
       /\ Get(payments.m[k].d, "status", "") = "completed"
       /\ CreatedAt(k) < call.now - Window

\* C3: recentChallengers returns at most `limit` entries, at most one per
\* userId, and the entry of a user with two completed payments of different
\* timestamps carries the payment id and date of the later one.
C3_Challengers ==
  call.op = "recentChallengers" =>
    /\ Len(ret.val) <= call.limit
    /\ \A i, j \in 1..Len(ret.val) : i # j => ret.val[i]["user_id"] # ret.val[j]["user_id"]
    /\ \A i \in 1..Len(ret.val) :
         \A k1, k2 \in CompletedBy(ret.val[i]["user_id"]) :
           CreatedAt(k1) < CreatedAt(k2) =>
             /\ ret.val[i]["payment_id"] # k1
             /\ k2 \in Latest(CompletedBy(ret.val[i]["user_id"])) =>
                  /\ ret.val[i]["payment_id"] = k2
                  /\ ret.val[i]["latest_payment_date"] = CreatedAt(k2)

\* The record r is the stored document of key k with the key merged under idfield.
Carries(r, tree, k, idfield) ==
  /\ DOMAIN r = DOMAIN tree.m[k].d \cup {idfield}
  /\ \A f \in DOMAIN tree.m[k].d : r[f] = tree.m[k].d[f]
  /\ idfield \notin DOMAIN tree.m[k].d => r[idfield] = k

\* What the scan-based strategy prescribes for the documents K of a subtree:
\* the records of n of them, one each, sorted descending by field, none of the
\* documents left out sorting before the last record returned.
Prescribed(val, tree, K, n, field, idfield) ==
  /\ Len(val) = n
  /\ SortedDesc(val, field)
  /\ \E f \in [1..Len(val) -> K] :
       /\ \A i, j \in 1..Len(val) : i # j => f[i] # f[j]
       /\ \A i \in 1..Len(val) : Carries(val[i], tree, f[i], idfield)
       /\ \A k \in K \ {f[i] : i \in 1..Len(val)} :
            Len(val) > 0 /\ Get(tree.m[k].d, field, 0) <= Get(val[Len(val)], field, 0)

PaymentDocs == {k \in PaymentKeys : PaymentDict(k)}

ProfileDocs == {u \in UserIds : ProfileDict(u)}

\* The payments the fallback of validPayments24h keeps, by the clock it read.
ValidDocs(now) ==
  {k \in PaymentDocs : /\ Get(payments.m[k].d, "status", "") = "completed"
                       /\ CreatedAt(k) >= now - Window}

\* C4: when the indexed query raises and the scan succeeds, recentPayments,
\* validPayments24h and latestUsers return exactly what the scan-based strategy
\* prescribes (the mapping-shaped records of the subtree, filtered, sorted
\* descending, truncated to `limit`), and no exception escapes.
C4_Fallback ==
  (call.op \in {"recentPayments", "validPayments24h", "latestUsers"}
     /\ call.qfail /\ ~call.sfail) =>
    /\ ret.ok
    /\ ret.path \in {"fallback", "failed"}
    /\ call.op = "recentPayments" =>
         Prescribed(ret.val, payments, PaymentDocs,
                    Min(call.limit, Cardinality(PaymentDocs)), "createdAt", "payment_id")
    /\ call.op = "validPayments24h" =>
         Prescribed(ret.val, payments, ValidDocs(call.later),
                    Cardinality(ValidDocs(call.later)), "createdAt", "payment_id")
    /\ call.op = "latestUsers" =>
         Prescribed(ret.val, profiles, ProfileDocs,
                    Min(call.limit, Cardinality(ProfileDocs)), "UserJoinDate", "user_id")

\* The fallback of recentPayments sorted two payments into the other order and
\* cut the older one off.
C4_Witness ==
  /\ call.op = "recentPayments" /\ call.qfail /\ ~call.sfail /\ call.limit = 1
  /\ PaymentDict(1) /\ PaymentDict(2) /\ CreatedAt(1) < CreatedAt(2)
  /\ Len(ret.val) = 1 /\ ret.val[1]["createdAt"] = CreatedAt(2)

\* The subtree an operation reads.
TreeOf(op) == IF op \in {"latestUsers", "userProfile"} THEN profiles ELSE payments

HasFallback(op) == op \in {"recentPayments", "validPayments24h", "latestUsers"}

AllStrategiesFail == call.qfail /\ (HasFallback(call.op) => call.sfail)

\* The indexed query of the call succeeds with nothing in it.
EmptyQueryResult ==
  /\ ~call.qfail
  /\ call.op = "validPayments24h" =>
       \A k \in PaymentDocs : "createdAt" \in DOMAIN payments.m[k].d =>
                                 CreatedAt(k) < call.now - Window
  /\ call.op = "userPayments" =>
       \A k \in PaymentDocs : Get(payments.m[k].d, "userId", 0) # call.user_id
  /\ call.op \in {"recentPayments", "recentChallengers", "latestUsers"} =>
       TreeOf(call.op) = NoTree
  /\ call.op = "userProfile" => ~HasChildKey(profiles, call.user_id)

\* C5: no read operation propagates a failure; a missing subtree, a subtree
\* that is no mapping, an empty query result or the failure of every strategy
\* yields the empty sequence (userProfile: the absent value).
C5_NeverThrows ==
  call.op # "none" =>
    /\ ret.ok
    /\ (\/ TreeOf(call.op) = NoTree
        \/ TreeOf(call.op).tag = "list"
        \/ EmptyQueryResult
        \/ AllStrategiesFail) =>
         ret.val = IF call.op = "userProfile" THEN NoProfile ELSE <<>>

\* validPayments24h on an array-shaped subtree: both strategies get a value and
\* both raise on it.
C5_Witness ==
  /\ call.op = "validPayments24h"
  /\ payments.tag = "list"
  /\ ~call.qfail /\ ~call.sfail
  /\ ret.path = "failed" /\ ret.val = <<>>

\* The completed payments of u that share u's latest timestamp.
Tied(u) == Latest(CompletedBy(u))

First(S) == CHOOSE k \in S : \A j \in S : k <= j

Last(S) == CHOOSE k \in S : \A j \in S : j <= k

\* C10 as stated: of two completed payments of one user with equal timestamps,
\* the one iterated last is retained and its id reported (taken here only over
\* documents that store no payment_id field of their own).
C10_TieLastWins ==
  call.op = "recentChallengers" =>
    \A i \in 1..Len(ret.val) :
      (/\ Cardinality(Tied(ret.val[i]["user_id"])) >= 2
       /\ \A k \in Tied(ret.val[i]["user_id"]) : ~Shadowed(k)) =>
        ret.val[i]["payment_id"] = Last(Tied(ret.val[i]["user_id"]))

\* C10 amended: of the completed payments of one user that share the latest
\* timestamp, the one iterated first (the smallest key) is retained: the entry
\* reports its id, or the payment_id field that document stores.
C10_TieFirstWins ==
  call.op = "recentChallengers" =>
    \A i \in 1..Len(ret.val) :
      Cardinality(Tied(ret.val[i]["user_id"])) >= 2 =>
        ret.val[i]["payment_id"] =
          Get(payments.m[First(Tied(ret.val[i]["user_id"]))].d, "payment_id",
              First(Tied(ret.val[i]["user_id"])))

\* An entry for a user whose two completed payments have the same timestamp.
C10_Witness ==
  /\ call.op = "recentChallengers"
  /\ Len(ret.val) = 1
  /\ Tied(ret.val[1]["user_id"]) = {1, 2}
  /\ ~Shadowed(1) /\ ~Shadowed(2)
  /\ CreatedAt(1) = 1 /\ CreatedAt(2) = 1
  /\ ret.val[1]["payment_id"] = 1

Completed(k) == PaymentDict(k) /\ Get(payments.m[k].d, "status", "") = "completed"

\* The user of payment k has no profile to join.
Orphan(k) == "userId" \in DOMAIN payments.m[k].d /\ ~ProfileDict(payments.m[k].d["userId"])

Listed(k) == \E i \in 1..Len(ret.val) : Carries(ret.val[i], payments, k, "payment_id")

\* The users whose profile recentChallengers cannot get: none stored, or the read fails.
Unjoinable(u) == ~ProfileDict(u) \/ u \in call.pfail

\* C11: a completed payment whose user has no profile is still returned by
\* recentPayments (when the limit admits every child) and by validPayments24h
\* (when it is recent enough); recentChallengers returns no entry for a user
\* whose profile is missing or cannot be read, and every entry it returns is for
\* a user with a completed payment and a stored profile, whose fields it carries.
C11_BestEffortJoin ==
  /\ (call.op = "recentPayments" /\ payments.tag = "dict" /\ ~AllStrategiesFail
        /\ call.limit >= Cardinality(DOMAIN payments.m)) =>
       \A k \in PaymentKeys : (Completed(k) /\ Orphan(k)) => Listed(k)
  /\ (call.op = "validPayments24h" /\ payments.tag = "dict" /\ ~AllStrategiesFail) =>
       \A k \in PaymentKeys :
         (Completed(k) /\ Orphan(k) /\ "createdAt" \in DOMAIN payments.m[k].d
            /\ CreatedAt(k) >= Cutoff(IF call.qfail THEN call.later ELSE call.now)) =>
           Listed(k)
  /\ call.op = "recentChallengers" =>
       /\ \A u \in UserIds : Unjoinable(u) =>
            \A i \in 1..Len(ret.val) : ret.val[i]["user_id"] # u
       /\ \A i \in 1..Len(ret.val) :
            LET u == ret.val[i]["user_id"]
            IN /\ u \in UserIds /\ CompletedBy(u) # {} /\ ProfileDict(u)
               /\ \A f \in DOMAIN profiles.m[u].d : ret.val[i][f] = profiles.m[u].d[f]

\* Users 1 and 2 both have a completed payment, only user 2 has a profile, and
\* recentChallengers(2) returns the entry of user 2 alone.
C11_Witness ==
  /\ call.op = "recentChallengers" /\ call.limit = 2 /\ ~call.qfail /\ call.pfail = {}
  /\ CompletedBy(1) # {} /\ CompletedBy(2) # {}
  /\ ~ProfileDict(1) /\ ProfileDict(2)
  /\ Len(ret.val) = 1 /\ ret.val[1]["user_id"] = 2 /\ ret.val[1]["UserName"] = "name"

\* The raw listing of the same kind of store: a completed payment of a user
\* without profile is in the result of recentPayments.
OrphanListed ==
  ~(call.op = "recentPayments" /\ ~call.qfail
      /\ \E k \in PaymentKeys : Completed(k) /\ Orphan(k) /\ Listed(k))

\* The subtree with the children that are no mapping removed.
WellFormed(tree) ==
  IF tree.tag = "dict"
  THEN [tree EXCEPT !.m = [k \in {j \in DOMAIN tree.m : tree.m[j].isdict} |-> tree.m[k]]]
  ELSE tree

\* The value the operation of the call gives on the store without the
\* children that are no mapping, every query failing or succeeding as it did.
OnWellFormed ==
  CASE call.op = "recentPayments" ->
         fetch_recent_payments(WellFormed(payments), call.limit, call.qfail, call.sfail).val
    [] call.op = "validPayments24h" ->
         fetch_valid_payments_24h(WellFormed(payments), call.now, call.later,
                                  call.qfail, call.sfail).val
    [] call.op = "userPayments" ->
         fetch_user_payments(WellFormed(payments), call.user_id, call.limit, call.qfail).val
    [] call.op = "latestUsers" ->
         fetch_latest_users(WellFormed(profiles), call.limit, call.qfail, call.sfail).val
    [] call.op = "recentChallengers" ->
         fetch_recent_challengers(WellFormed(payments), profiles, call.limit,
                                  call.qfail, call.pfail).val

ListReturning ==
  call.op \in {"recentPayments", "validPayments24h", "userPayments", "latestUsers",
               "recentChallengers"}

\* C12: when the subtree a list-returning operation queries holds children that
\* are no mapping, the operation raises nothing and returns exactly what it
\* returns on the same subtree with those children removed.
C12_MalformedSkipped ==
  ListReturning => ret.ok /\ ret.val = OnWellFormed

\* The query of the primary strategy cut the children down to the last `limit`.
LimitedQuery == call.op \in {"recentPayments", "latestUsers"} /\ ~call.qfail

\* What the code keeps of C12: nothing is raised and no malformed child is
\* returned; the result is the one on the cleaned subtree wherever the store
\* did not apply the limit before the malformed children were dropped.
MalformedSkippedAfterLimit ==
  ListReturning =>
    /\ ret.ok
    /\ ~LimitedQuery => ret.val = OnWellFormed
    /\ LimitedQuery =>
         \A i \in 1..Len(ret.val) : \E j \in 1..Len(OnWellFormed) : ret.val[i] = OnWellFormed[j]

\* ------------------------------------------------- the helpers, on their own
TzOffsets == {0 - 8, 0, 5}

\* Hours since the epoch: before year 1, around the epoch, 2023-11-14 22h UTC,
\* and around the end of year 9999.
Hours == {MinHour - 48, 0 - 1, 0, 1, 472222,
          MaxHour - 14, MaxHour - 6, MaxHour - 5, MaxHour - 1, MaxHour, MaxHour + 9}

Millis == {0, 800000, HourMs - 1}

Timestamps ==
  {[kind |-> k] : k \in {"none", "nan", "text", "huge"}}
    \cup {[kind |-> "num", h |-> h, ms |-> ms] : h \in Hours, ms \in Millis}

InitFmt ==
  /\ StoreIdle /\ PassIdle /\ stats = NoStats
  /\ fmt \in {[arg |-> t, tz |-> z, out |-> [kind |-> "pending"]] :
                t \in Timestamps, z \in TzOffsets}

FormatTimestamp ==
  /\ fmt.out.kind = "pending"
  /\ fmt' = [fmt EXCEPT !.out = format_timestamp(fmt.arg, fmt.tz)]
  /\ UNCHANGED <<payments, profiles, call, ret, stats, pass, proc>>

NextFmt == FormatTimestamp

SpecFmt == InitFmt /\ [][NextFmt]_vars

MaxRecords == 3

\* Payment-shaped records: amount, status and currency may each be absent.
StatRecords ==
  {a @@ st @@ c : a \in OptField("amount", {100, 200, 300}),
                  st \in OptField("status", {"completed", "pending"}),
                  c \in OptField("currency", {"usd"})}

InitStats ==
  /\ StoreIdle /\ PassIdle /\ fmt = NoFmt
  /\ stats \in {[arg |-> recs, done |-> FALSE, out |-> NoFields] :
                  recs \in UNION {[1..n -> StatRecords] : n \in 0..MaxRecords}}

CalculatePaymentStats ==
  /\ ~stats.done
  /\ stats' = [stats EXCEPT !.done = TRUE, !.out = calculate_payment_stats(stats.arg)]
  /\ UNCHANGED <<payments, profiles, call, ret, fmt, pass, proc>>

NextStats == CalculatePaymentStats

SpecStats == InitStats /\ [][NextStats]_vars

\* C8: 0, an absent value and a value that is no number (a text) yield "Not
\* available"; a number whose conversion to a date fails yields "Invalid date";
\* every other number yields the date and time of the instant 5 hours later.
C8_Classification ==
  fmt.out.kind # "pending" =>
    LET t == fmt.arg
        lh == t.h + fmt.tz
    IN IF t.kind \in {"none", "nan", "text"} \/ IsZero(t) THEN fmt.out = NotAvailable
       ELSE IF t.kind = "huge" \/ lh < MinHour \/ lh + OffsetHours >= MaxHour
            THEN fmt.out = InvalidDate
            ELSE fmt.out = Strftime(lh + OffsetHours, t.ms)

\* What format_timestamp does: "Not available" for None, NaN and 0, "Invalid
\* date" for a text and for a number outside the years 1..9999, an uncaught
\* OverflowError (OSError) for a number within 5 hours of the end of year 9999
\* or beyond the platform's range, and else the wall-clock time 5 hours later.
FormatTimestampBehaviour ==
  fmt.out.kind # "pending" =>
    LET t == fmt.arg
        lh == t.h + fmt.tz
    IN CASE t.kind \in {"none", "nan"} -> fmt.out = NotAvailable
         [] t.kind = "text" -> fmt.out = InvalidDate
         [] t.kind = "huge" -> fmt.out.kind = "raised"
         [] OTHER ->
              IF t.h = 0 /\ t.ms = 0 THEN fmt.out = NotAvailable
              ELSE IF lh < MinHour \/ lh >= MaxHour THEN fmt.out = InvalidDate
              ELSE IF lh >= MaxHour - 5 THEN fmt.out.kind = "raised"
              ELSE /\ fmt.out.kind = "date"
                   /\ fmt.out.hh = (lh + 5) % 24
                   /\ fmt.out.mm * 60 + fmt.out.ss = t.ms \div 1000

\* 1700000000000 ms on a UTC machine prints as 03:13:20 2023-11-15.
GoldenTimestamp ==
  (fmt.out.kind # "pending" /\ fmt.arg = [kind |-> "num", h |-> 472222, ms |-> 800000]
     /\ fmt.tz = 0) =>
    fmt.out = [kind |-> "date", hh |-> 3, mm |-> 13, ss |-> 20,
               date |-> [Y |-> 2023, M |-> 11, D |-> 15]]

Present(records, field) == Len(Having(records, field))

\* C9: the empty sequence gives the empty structure; a non-empty sequence gives
\* count = the number of records, total = the sum of the amounts present,
\* average = total over the number of records with an amount, and the number
\* of records per status and per currency, also when records lack an amount.
C9_Stats ==
  stats.done =>
    IF stats.arg = <<>> THEN stats.out = NoFields
    ELSE /\ "count" \in DOMAIN stats.out /\ stats.out["count"] = Len(stats.arg)
         /\ "total_amount" \in DOMAIN stats.out
         /\ stats.out["total_amount"] = ColumnSum(stats.arg, "amount")
         /\ Present(stats.arg, "amount") > 0 =>
              /\ stats.out["average_amount"].num = stats.out["total_amount"]
              /\ stats.out["average_amount"].den = Present(stats.arg, "amount")
         /\ \A f \in {"status", "currency"} :
              \A v \in {"completed", "pending", "usd"} :
                LET n == Len(SelectSeq(stats.arg, LAMBDA r : f \in DOMAIN r /\ r[f] = v))
                    table == Get(stats.out, f \o "_breakdown", NoFields)
                IN n > 0 => v \in DOMAIN table /\ table[v] = n

\* C9 with the records that have an amount: what the code does deliver.
StatsWithAmounts ==
  (stats.done /\ Present(stats.arg, "amount") > 0) => C9_Stats

\* Amounts 100, 200, 300 give count 3, total 600, average 200.
GoldenStats ==
  (stats.done /\ Len(stats.arg) = 3
     /\ \A i \in 1..3 : Get(stats.arg[i], "amount", 0) = 100 * i) =>
    /\ stats.out["count"] = 3
    /\ stats.out["total_amount"] = 600
    /\ stats.out["average_amount"].num = 200 * stats.out["average_amount"].den

\* ------------------------------------------------------------ the script
\* One render pass is one execution of the script from its first line; the
\* process, and with it the store app, outlives the pass.
MaxPasses == 2

\* The configured credential source: nothing, a text (FIREBASE_CERT_PATH, or a
\* secret given as a string), a mapping from the secrets, or a dict. A mapping
\* or dict has no private_key, one that is a text, or one that is no text, and
\* is or is not a service-account certificate.
CertSources ==
  {[src |-> "none"], [src |-> "text"]}
    \cup {[src |-> s, key |-> k, valid |-> v] :
            s \in {"secret", "dict"}, k \in {"absent", "text", "other"}, v \in BOOLEAN}

Envs == {[cert |-> c, url |-> u] : c \in CertSources, u \in BOOLEAN}

\* The subtrees a pass reads: missing, array-shaped, or one document whose
\* date is recent or lies within the last hour of year 9999.
Dates == {2, MaxHour - 1}

PassPayments ==
  {NoTree, [tag |-> "list"]}
    \cup {[tag |-> "dict",
           m |-> 1 :> [isdict |-> TRUE,
                       d |-> [userId |-> 1, status |-> "completed", createdAt |-> c]]] :
            c \in Dates}

PassProfiles ==
  {NoTree, [tag |-> "list"]}
    \cup {[tag |-> "dict",
           m |-> 1 :> [isdict |-> TRUE, d |-> [UserName |-> "name", UserJoinDate |-> j]]] :
            j \in Dates}

NewPass(n) ==
  [pc |-> "load", n |-> n, uid |-> 0, invoked |-> <<>>, rendered |-> {}, errors |-> 0]

\* st.error(...); st.stop()
Stop(p) == [p EXCEPT !.errors = @ + 1, !.pc = "stopped"]

\* An exception nothing catches ends the pass.
Crash(p) == [p EXCEPT !.pc = "crashed"]

Goto(p, pc) == [p EXCEPT !.pc = pc]

Invoke(p, op) == [p EXCEPT !.invoked = Append(@, op)]

CertMissing(env) == env.cert.src = "none"

\* if not firebase_cert_source or not firebase_db_url
ConfigMissing(env) == env.cert.src = "none" \/ ~env.url

InitPass ==
  /\ payments \in PassPayments
  /\ profiles \in PassProfiles
  /\ call = NoCall
  /\ ret = NoResult
  /\ HelpersIdle
  /\ pass = NewPass(1)
  /\ proc \in {[app |-> FALSE, created |-> 0, certs |-> 0, env |-> e, tz |-> 0] : e \in Envs}

Quiet == UNCHANGED <<payments, profiles, call, ret, fmt, stats>>

\* Lines 16-23: read the configuration, stop when a part is missing.
LoadConfig ==
  /\ pass.pc = "load"
  /\ pass' = IF ConfigMissing(proc.env) THEN Stop(pass) ELSE Goto(pass, "convert")
  /\ UNCHANGED proc
  /\ Quiet

\* Lines 26-33: dict(firebase_cert_source) of a text raises, which stops.
ConvertCert ==
  /\ pass.pc = "convert"
  /\ pass' = IF proc.env.cert.src = "text" THEN Stop(pass) ELSE Goto(pass, "key")
  /\ UNCHANGED proc
  /\ Quiet

\* Lines 36-38: private_key.replace(...) of a value that is no text raises
\* AttributeError outside every try.
ProcessKey ==
  /\ pass.pc = "key"
  /\ pass' = IF proc.env.cert.key = "other" THEN Crash(pass) ELSE Goto(pass, "cred")
  /\ UNCHANGED proc
  /\ Quiet

\* Lines 41-47: credentials.Certificate(firebase_cert_source)
BuildCredential ==
  /\ pass.pc = "cred"
  /\ IF proc.env.cert.valid
     THEN /\ pass' = Goto(pass, "app")
          /\ proc' = [proc EXCEPT !.certs = @ + 1]
     ELSE /\ pass' = Stop(pass)
          /\ UNCHANGED proc
  /\ Quiet

\* Lines 50-60: initialize_app raises ValueError when the app exists, and
\* get_app() then returns it; any other failure stops.
InitializeApp ==
  /\ pass.pc = "app"
  /\ IF proc.app
     THEN /\ pass' = Goto(pass, "users")
          /\ UNCHANGED proc
     ELSE \E ok \in BOOLEAN :
            IF ok
            THEN /\ pass' = Goto(pass, "users")
                 /\ proc' = [proc EXCEPT !.app = TRUE, !.created = @ + 1]
            ELSE /\ pass' = Stop(pass)
                 /\ UNCHANGED proc
  /\ Quiet

\* A cell of the DataFrame column: NaN for a record without the field.
Cell(r, field) ==
  IF field \in DOMAIN r THEN [kind |-> "num", h |-> r[field], ms |-> 0]
  ELSE [kind |-> "nan"]

\* df[field].apply(format_timestamp) raises when one cell does.
ApplyRaises(records, field, tz) ==
  /\ field \in Columns(records)
  /\ \E i \in 1..Len(records) :
       format_timestamp(Cell(records[i], field), tz).kind = "raised"

\* format_timestamp(user_profile.get(field, 0))
GetRaises(d, field, tz) ==
  format_timestamp([kind |-> "num", h |-> Get(d, field, 0), ms |-> 0], tz).kind = "raised"

Show(p, section, next) == [p EXCEPT !.rendered = @ \cup {section}, !.pc = next]

StatsOf(records) ==
  [arg |-> records, done |-> TRUE, out |-> calculate_payment_stats(records)]

\* Lines 410-433
LatestUsersSection ==
  /\ pass.pc = "users"
  /\ \E qfail \in BOOLEAN :
       \E sfail \in After(LatestUsersPrimary(profiles, 10, qfail)) :
         LET latest_users == fetch_latest_users(profiles, 10, qfail, sfail)
             p == Invoke(pass, "latestUsers")
         IN /\ call' = [op |-> "latestUsers", limit |-> 10, qfail |-> qfail,
                        sfail |-> sfail]
            /\ ret' = latest_users
            /\ pass' = IF latest_users.val = <<>> THEN Show(p, "latestUsers", "search")
                       ELSE IF \/ ApplyRaises(latest_users.val, "UserJoinDate", proc.tz)
                               \/ ApplyRaises(latest_users.val, "UserActiveDate", proc.tz)
                            THEN Crash(p)
                            ELSE Show(p, "latestUsers", "search")
  /\ UNCHANGED <<payments, profiles, fmt, stats, proc>>

\* Lines 437-511, without an id entered
SearchSkipped ==
  /\ pass.pc = "search"
  /\ pass' = Goto(pass, "valid")
  /\ UNCHANGED proc
  /\ Quiet

\* Lines 437-511, with an id entered: the payment history is fetched inside
\* "if user_profile:".
SearchSection ==
  /\ pass.pc = "search"
  /\ \E uid \in UserIds, qfail \in BOOLEAN, hfail \in BOOLEAN :
       LET user_profile == fetch_user_profile(profiles, uid, qfail)
           user_payments == fetch_user_payments(payments, uid, 20, hfail)
           p == Invoke([pass EXCEPT !.uid = uid], "userProfile")
           q == Invoke(p, "userPayments")
       IN IF ~user_profile.val.found
          THEN /\ ~hfail
               /\ call' = [op |-> "userProfile", user_id |-> uid, qfail |-> qfail]
               /\ ret' = user_profile
               /\ pass' = Show(p, "search", "valid")
               /\ UNCHANGED stats
          ELSE IF \/ GetRaises(user_profile.val.d, "UserJoinDate", proc.tz)
                  \/ GetRaises(user_profile.val.d, "UserActiveDate", proc.tz)
          THEN /\ ~hfail
               /\ call' = [op |-> "userProfile", user_id |-> uid, qfail |-> qfail]
               /\ ret' = user_profile
               /\ pass' = Crash(p)
               /\ UNCHANGED stats
          ELSE /\ call' = [op |-> "userPayments", user_id |-> uid, limit |-> 20,
                           qfail |-> hfail]
               /\ ret' = user_payments
               /\ IF user_payments.val = <<>>
                  THEN /\ pass' = Show(q, "search", "valid")
                       /\ UNCHANGED stats
                  ELSE /\ stats' = StatsOf(user_payments.val)
                       /\ pass' = IF ApplyRaises(user_payments.val, "createdAt", proc.tz)
                                  THEN Crash(q) ELSE Show(q, "search", "valid")
  /\ UNCHANGED <<payments, profiles, fmt, proc>>

\* Lines 515-555
ValidPaymentsSection ==
  /\ pass.pc = "valid"
  /\ \E now \in Nows, qfail \in BOOLEAN :
       \E sfail \in After(ValidPaymentsPrimary(payments, now, qfail)) :
         LET valid_payments_24h == fetch_valid_payments_24h(payments, now, now, qfail, sfail)
             p == Invoke(pass, "validPayments24h")
         IN /\ call' = [op |-> "validPayments24h", now |-> now, later |-> now,
                        qfail |-> qfail, sfail |-> sfail]
            /\ ret' = valid_payments_24h
            /\ IF valid_payments_24h.val = <<>>
               THEN /\ pass' = Show(p, "validPayments24h", "recent")
                    /\ UNCHANGED stats
               ELSE /\ stats' = StatsOf(valid_payments_24h.val)
                    /\ pass' = IF ApplyRaises(valid_payments_24h.val, "createdAt", proc.tz)
                               THEN Crash(p) ELSE Show(p, "validPayments24h", "recent")
  /\ UNCHANGED <<payments, profiles, fmt, proc>>

\* Lines 559-629
RecentPaymentsSection ==
  /\ pass.pc = "recent"
  /\ \E qfail \in BOOLEAN :
       \E sfail \in After(RecentPaymentsPrimary(payments, 50, qfail)) :
         LET recent_payments == fetch_recent_payments(payments, 50, qfail, sfail)
             p == Invoke(pass, "recentPayments")
         IN /\ call' = [op |-> "recentPayments", limit |-> 50, qfail |-> qfail,
                        sfail |-> sfail]
            /\ ret' = recent_payments
            /\ IF recent_payments.val = <<>>
               THEN /\ pass' = Show(p, "recentPayments", "button")
                    /\ UNCHANGED stats
               ELSE /\ stats' = StatsOf(recent_payments.val)
                    /\ pass' = IF ApplyRaises(recent_payments.val, "createdAt", proc.tz)
                               THEN Crash(p) ELSE Show(p, "recentPayments", "button")
  /\ UNCHANGED <<payments, profiles, fmt, proc>>

\* Lines 632-636: st.rerun() when the button was pressed.
RefreshButton ==
  /\ pass.pc = "button"
  /\ \/ pass' = Goto(pass, "done")
     \/ /\ pass.n < MaxPasses
        /\ pass' = NewPass(pass.n + 1)
  /\ UNCHANGED proc
  /\ Quiet

\* The script runs again, in the same process, on the next interaction.
Rerun ==
  /\ pass.pc \in {"done", "stopped", "crashed"}
  /\ pass.n < MaxPasses
  /\ pass' = NewPass(pass.n + 1)
  /\ UNCHANGED proc
  /\ Quiet

NextPass ==
  \/ LoadConfig
  \/ ConvertCert
  \/ ProcessKey
  \/ BuildCredential
  \/ InitializeApp
  \/ LatestUsersSection
  \/ SearchSkipped
  \/ SearchSection
  \/ ValidPaymentsSection
  \/ RecentPaymentsSection
  \/ RefreshButton
  \/ Rerun

SpecPass == InitPass /\ [][NextPass]_vars

Ops(p) == {p.invoked[i] : i \in 1..Len(p.invoked)}

Ended == pass.pc \in {"done", "stopped", "crashed"}

\* The sections were reached: the first read operation was invoked.
Serving == pass.pc \notin {"off", "load", "convert", "key", "cred", "app", "stopped"}
             /\ pass.invoked # <<>>

\* C6: a failure inside one operation never keeps a later operation of the
\* pass from being invoked: a pass that ran to its end has invoked latestUsers,
\* validPayments24h and recentPayments, and with a user id entered userProfile
\* and userPayments as well.
C6_EveryOperationInvoked ==
  pass.pc = "done" =>
    /\ {"latestUsers", "validPayments24h", "recentPayments"} \subseteq Ops(pass)
    /\ pass.uid # 0 => {"userProfile", "userPayments"} \subseteq Ops(pass)

\* What the script does keep: the three unconditional reads of a pass that ran
\* to its end, and userPayments exactly after a profile was found.
UnconditionalReads ==
  pass.pc = "done" =>
    /\ {"latestUsers", "validPayments24h", "recentPayments"} \subseteq Ops(pass)
    /\ "userPayments" \in Ops(pass) =>
         "userProfile" \in Ops(pass) /\ HasChildKey(profiles, pass.uid)

\* A pass can also end early: a date within 5 hours of the end of year 9999
\* makes format_timestamp raise while a section is rendered.
NoPassCrashesInASection == ~(pass.pc = "crashed" /\ pass.invoked # <<>>)

\* Inside recentChallengers a failed profile read for one user leaves the
\* other users' entries in the result.
ChallengersLookupIndependent ==
  (call.op = "recentChallengers" /\ ~call.qfail /\ payments.tag = "dict") =>
    \A u \in LookedUp(payments, call.limit, FALSE) \ call.pfail :
      ProfileDict(u) => \E i \in 1..Len(ret.val) : ret.val[i]["user_id"] = u

\* The configuration no pass can start from: a part is missing, or no
\* certificate can be built from the credential source.
BadConfig(env) ==
  \/ env.cert.src \in {"none", "text"}
  \/ ~env.url
  \/ env.cert.key = "other"
  \/ ~env.cert.valid

\* C7: with a missing credential source, a missing database URL or a
\* credential source no certificate can be built from, the pass invokes no read
\* operation and renders no section, and it halts with the error reported (one
\* st.error before st.stop, or the uncaught exception itself); and whenever a
\* read operation has been invoked the store app is initialized.
C7_StartupFatal ==
  /\ BadConfig(proc.env) =>
       /\ pass.invoked = <<>> /\ pass.rendered = {}
       /\ pass.pc \in {"load", "convert", "key", "cred", "stopped", "crashed"}
       /\ pass.pc = "stopped" => pass.errors = 1
       /\ pass.pc # "stopped" => pass.errors = 0
  /\ pass.pc = "stopped" => pass.invoked = <<>> /\ pass.rendered = {} /\ pass.errors = 1
  /\ (pass.invoked # <<>> \/ pass.rendered # {}) => proc.app /\ proc.created = 1

\* A pass was stopped for a missing database URL, with the credential fine.
C7_Witness ==
  /\ pass.pc = "stopped"
  /\ ~proc.env.url
  /\ proc.env.cert.src = "secret" /\ proc.env.cert.valid

\* C13: over the passes of one process the store app is created at most once
\* and exists exactly when it was created, a read operation is only invoked
\* with the app in place, and once the app exists no pass derives a
\* certificate credential again.
C13_OncePerProcess ==
  /\ [](/\ proc.created <= 1
        /\ proc.app <=> proc.created = 1
        /\ pass.invoked # <<>> => proc.app)
  /\ [][proc.app => proc.certs' = proc.certs]_vars

\* What the script keeps of C13: one app per process, found again by every
\* later pass, and no read before it exists; the certificate is built anew by
\* every pass that gets that far.
AppCreatedOnce ==
  /\ proc.created <= 1
  /\ proc.app <=> proc.created = 1
  /\ pass.invoked # <<>> => proc.app
  /\ proc.certs <= pass.n
  /\ pass.pc \in {"users", "search", "valid", "recent", "button", "done"} =>
       proc.certs = pass.n

\* ------------------------------------------- the challengers' join, on its own
\* Three payments of up to three users, each user with or without a profile.
ChallengerKeys == {1, 2, 3}

ChallengerUsers == {1, 2, 3}

ChallengerPayments ==
  {[tag |-> "dict", m |-> f] :
     f \in [ChallengerKeys ->
              {[isdict |-> TRUE, d |-> [userId |-> u, status |-> st, createdAt |-> c]] :
                 u \in ChallengerUsers, st \in {"completed", "pending"}, c \in Times}]}

ChallengerProfiles ==
  {[tag |-> "dict", m |-> f] :
     f \in UNION {[S -> {PlainProfile}] : S \in SUBSET ChallengerUsers}}

InitJoin ==
  /\ payments \in ChallengerPayments
  /\ profiles \in ChallengerProfiles
  /\ call = NoCall
  /\ ret = NoResult
  /\ HelpersIdle
  /\ PassIdle

NextJoin == FetchRecentChallengers

SpecJoin == InitJoin /\ [][NextJoin]_vars

\* The completed payments of user u among the payments stored.
PaidBy(u) ==
  {k \in DOMAIN payments.m : /\ payments.m[k].isdict
                             /\ Get(payments.m[k].d, "status", "") = "completed"
                             /\ "userId" \in DOMAIN payments.m[k].d
                             /\ payments.m[k].d["userId"] = u}

Payers == {u \in ChallengerUsers : PaidBy(u) # {}}

\* The latest createdAt of u's completed payments.
LatestOf(u) == CHOOSE t \in {CreatedAt(k) : k \in PaidBy(u)} : \A k \in PaidBy(u) : CreatedAt(k) <= t

\* T is a choice of the first n users by latest payment, descending.
FirstUsers(T, n) ==
  /\ Cardinality(T) = Min(n, Cardinality(Payers))
  /\ \A u \in T : \A v \in Payers \ T : LatestOf(u) >= LatestOf(v)

\* The profile of u is stored and the read of it succeeds.
Joinable(u) == ProfileDict(u) /\ u \notin call.pfail

\* C14: recentChallengers(limit) cuts the users with a completed payment,
\* sorted by their latest createdAt descending, to the first `limit` before it
\* looks profiles up: the result is, in that order and with one entry each,
\* exactly those of the first `limit` users whose profile the lookup yields, and
\* no user ranked after position `limit` is returned.
C14_TruncateBeforeJoin ==
  (call.op = "recentChallengers" /\ ~call.qfail /\ payments.tag = "dict") =>
    \E T \in SUBSET Payers :
      /\ FirstUsers(T, call.limit)
      /\ {ret.val[i]["user_id"] : i \in 1..Len(ret.val)} = {u \in T : Joinable(u)}
      /\ Len(ret.val) = Cardinality({u \in T : Joinable(u)})
      /\ SortedDesc(ret.val, "latest_payment_date")
      /\ \A i \in 1..Len(ret.val) :
           ret.val[i]["latest_payment_date"] = LatestOf(ret.val[i]["user_id"])

\* With limit 1, users 2 and 3 have a completed payment and a profile, user 1
\* has the latest payment and no profile: the result is empty.
C14_Witness ==
  /\ call.op = "recentChallengers" /\ call.limit = 1 /\ ~call.qfail /\ call.pfail = {}
  /\ Payers = {1, 2, 3}
  /\ LatestOf(1) > LatestOf(2) /\ LatestOf(1) > LatestOf(3)
  /\ ~ProfileDict(1) /\ ProfileDict(2) /\ ProfileDict(3)
  /\ ret.ok /\ ret.val = <<>>

====
